---------------------------- MODULE Spec2Model ----------------------------
(***************************************************************************)
(* State-machine model of BingXBot (src/main.py): the signer, the API      *)
(* client, the dedup cache and the poll cycle (fetch_trades), together     *)
(* with the chat command handler (on_message) that shares the API client.  *)
(*                                                                         *)
(* A coroutine is split at its await points: one action per stretch of     *)
(* code that runs without yielding to the event loop.                      *)
(***************************************************************************)
EXTENDS Integers, Sequences, FiniteSets, TLC

(***************************************************************************)
(* Bounds of the model.                                                    *)
(***************************************************************************)
\* size cap of processed_trades (1000 in the source), scaled down
MAX_CACHE == 1
\* order identifiers are 1..MaxId; 0 stands for a missing or falsy orderId
MaxId == 2
\* longest orderList / data list of one API response
MaxBatch == 2
\* most parameters of a mapping handed to sign_request on its own
MaxParams == 3
\* half seconds of wall clock over which format_trade_message is applied on its own
MaxTick == 5

(***************************************************************************)
(* Values.                                                                 *)
(***************************************************************************)
\* a field the raw event does not carry
Absent == 0 - 1
\* wall clock at start, in milliseconds (one hour after the epoch)
T0 == 3600 * 1000
\* the instants at which the program reads time.time(), in milliseconds
Clock == {T0, T0 + 1000}

Secrets == {"secret", "undecodable"}
\* str.encode('utf-8') of the secret raises for a secret holding lone
\* surrogates (an environment value with bytes that are not UTF-8)
Encodable(secret) == secret # "undecodable"

Ids == 1..MaxId
\* raw events of an orderList: the fields the program reads
Events == [orderId : 0..MaxId, time : {T0}]

RECURSIVE SeqsUpTo(_, _)
SeqsUpTo(S, n) ==
    IF n = 0 THEN {<<>>}
    ELSE LET shorter == SeqsUpTo(S, n - 1)
         IN  shorter \cup {Append(s, e) : s \in {t \in shorter : Len(t) = n - 1}, e \in S}

OrderLists == SeqsUpTo(Events, MaxBatch)

\* what comes back from the GET of get_recent_trades
PollResponses ==
    {[kind |-> k, orderList |-> <<>>] :
        k \in {"transport", "http", "malformed", "nodata", "baddata"}}
    \cup {[kind |-> "ok", orderList |-> l] : l \in OrderLists}

Positions == [positionAmt : {0, 1}]
DataLists == SeqsUpTo(Positions, MaxBatch)

CmdResponses ==
    {[kind |-> k, data |-> <<>>] : k \in {"transport", "http", "malformed", "nodata"}}
    \cup {[kind |-> "ok", data |-> l] : l \in DataLists}

EP_OPEN_ORDERS == "openApi/swap/v2/trade/openOrders"
EP_POSITIONS == "openApi/swap/v2/user/positions"
EP_ORDERS == "openApi/swap/v2/user/orders"
Endpoints == {EP_OPEN_ORDERS, EP_POSITIONS, EP_ORDERS}

NoRequest == [endpoint |-> "", params |-> <<>>]

\* the settings read from the environment, lines 20-23
Settings == {"DISCORD_TOKEN", "CHANNEL_ID", "BINGX_API_KEY", "BINGX_SECRET_KEY"}

VARIABLES
    phase,             \* "boot", "running" (inside client.run), "exited";
                       \* "sign", "format" while one function is applied on its own
    env,               \* the settings present in the environment
    exitCause,         \* why the process ended: "config", "shutdown", "error"
    exitStatus,        \* exit status of the process, Absent while it lives
    probeIn,           \* arguments of a function applied on its own
    probeOut,          \* its result
    SECRET_KEY,        \* self.SECRET_KEY
    session,           \* self.session: "None", "open" or "closed"
    sessionsCreated,   \* calls of aiohttp.ClientSession()
    processed_trades,  \* self.processed_trades
    insertOrder,       \* the identities of processed_trades, oldest insertion first
    loops,             \* Loop tasks of fetch_trades launched and not completed
    running,           \* executions of fetch_trades in flight
    pollPc,            \* "idle", "http" (awaiting the GET), "send" (awaiting channel.send)
    http,              \* the GET in flight of the poll cycle and of the command handler
    trades,            \* orderList of the cycle
    idx,               \* position in trades of the event being sent
    pollMsg,           \* text handed to channel.send
    cycleSent,         \* messages sent by the cycle, in order
    cycleQueried,      \* endpoints requested by the cycle
    cacheAtStart,      \* processed_trades when the cycle started
    outcome,           \* how the last cycle went
    prevFailed,        \* the cycle before this one failed
    liveDeliveries,    \* per identity: messages delivered since it entered the cache
    cmdPc,             \* "idle", "http", "send"
    cmdKind,           \* the command being handled
    cmdMsg,            \* text handed to message.channel.send
    cmdOutcome,        \* how the last handler went
    cmdResp,           \* what its API call returned: "none", "failed", "empty" or "ok"
    cmdOwed,           \* positions of the response to !positions with a non-zero amount
    cmdSent            \* messages its message.channel.send delivered

pollVars == <<processed_trades, insertOrder, pollPc, trades, idx, pollMsg, cycleSent,
              cycleQueried, cacheAtStart, outcome, prevFailed,
              liveDeliveries, running>>
cmdVars == <<cmdPc, cmdKind, cmdMsg, cmdOutcome, cmdResp, cmdOwed, cmdSent>>
\* what no handler writes
fixedVars == <<phase, env, exitCause, exitStatus, probeIn, probeOut, SECRET_KEY>>
clientVars == <<session, sessionsCreated>>
vars == <<fixedVars, clientVars, loops, http, pollVars, cmdVars>>

(***************************************************************************)
(* Signer (sign_request).                                                  *)
(***************************************************************************)
\* A dict is the sequence of its <<key, value>> items in insertion order,
\* the order in which Python iterates it.
Keys(params) == [i \in 1..Len(params) |-> params[i][1]]
Has(params, k) == \E i \in 1..Len(params) : params[i][1] = k
Get(params, k) == params[CHOOSE i \in 1..Len(params) : params[i][1] = k][2]

\* the parameter names the program uses, in the order of str comparison
KeyOrder == <<"endTime", "limit", "orderId", "sign", "startTime", "symbol", "timestamp">>
KeyRank(k) == CHOOSE i \in 1..Len(KeyOrder) : KeyOrder[i] = k

\* the keys as params.keys() yields them
insertion_order(keys) == keys

\* sorted(params.keys()): the names in the order of str comparison, those
\* among the keys kept (the keys of a dict are distinct)
sorted(keys) ==
    LET present == {keys[i] : i \in 1..Len(keys)}
    IN  SelectSeq(KeyOrder, LAMBDA k : k \in present)

\* '&'.join(f"{key}={params[key]}" ...): the sequence of key=value items
query_string(params) ==
    LET ks == sorted(Keys(params))
    IN  [i \in 1..Len(ks) |-> <<ks[i], Get(params, ks[i])>>]

\* the hex digest of HMAC-SHA256, kept symbolic: the key and the message
hmac_new(key, msg) == [key |-> key, msg |-> msg]
EmptySignature == [key |-> "", msg |-> <<>>]

sign_request(params) ==
    IF Encodable(SECRET_KEY)
    THEN hmac_new(SECRET_KEY, query_string(params))
    ELSE EmptySignature

(***************************************************************************)
(* API client (make_request), up to its await on session.get.              *)
(***************************************************************************)
\* params[k] = v: a new key goes last, a key already there keeps its place
Put(params, k, v) ==
    IF Has(params, k)
    THEN [i \in 1..Len(params) |-> IF params[i][1] = k THEN <<k, v>> ELSE params[i]]
    ELSE Append(params, <<k, v>>)

\* lines 69-70, with the sign slot filled before signing
SignedParamsPrefilled(params, t) ==
    LET p0 == Put(params, "sign", EmptySignature)
        p1 == Put(p0, "timestamp", ToString(t))
    IN  Put(p1, "sign", sign_request(p1))

\* lines 69-70; t is int(time.time() * 1000)
SignedParams(params, t) ==
    LET p1 == Put(params, "timestamp", ToString(t))
    IN  Put(p1, "sign", sign_request(p1))

\* the GET handed to session.get
make_request(endpoint, params, t) ==
    [endpoint |-> endpoint, params |-> SignedParams(params, t)]

\* lines 66-67 without the test of line 66
OpenSessionEachTime ==
    /\ session' = "open"
    /\ sessionsCreated' = sessionsCreated + 1

\* lines 66-67: no await between the test and the assignment
OpenSession ==
    IF session = "None"
    THEN /\ session' = "open"
         /\ sessionsCreated' = sessionsCreated + 1
    ELSE UNCHANGED clientVars

\* lines 94-100; t is the time.time() of lines 97-98, in milliseconds
RecentTradesParams(t) ==
    << <<"symbol", "BTC-USDT">>,
       <<"orderId", "">>,
       <<"startTime", ToString(t - 3600 * 1000)>>,
       <<"endTime", ToString(t)>>,
       <<"limit", "50">> >>

\* lines 101-102 with the path of get_positions
get_recent_trades_positions(t1, t2) ==
    make_request(EP_POSITIONS, RecentTradesParams(t1), t2)

\* lines 92-102; t1 and t2 are the clock of lines 97-98 and of line 69
get_recent_trades(t1, t2) == make_request(EP_OPEN_ORDERS, RecentTradesParams(t1), t2)

SymbolParams == << <<"symbol", "BTC-USDT">> >>
get_positions(t) == make_request(EP_POSITIONS, SymbolParams, t)
get_tp_sl_orders(t) == make_request(EP_ORDERS, SymbolParams, t)

(***************************************************************************)
(* Event normalizer (format_trade_message).                                *)
(***************************************************************************)
\* int(int(trade.get('time', time.time())) / 1000); t is the wall clock in
\* milliseconds, so that time.time(), in seconds, is t / 1000
RenderedTime(trade, t) ==
    IF trade.time = Absent THEN (t \div 1000) \div 1000 ELSE trade.time \div 1000

format_trade_message(trade, t) == [time |-> RenderedTime(trade, t)]

NoMessage == [time |-> Absent]

(***************************************************************************)
(* Startup.                                                                *)
(***************************************************************************)
\* the object as __init__ leaves it (lines 44 and 47) and the tasks at rest;
\* ids are the identities the API may return
ConstructedOver(ids) ==
    /\ session = "None"
    /\ sessionsCreated = 0
    /\ exitCause = "none"
    /\ exitStatus = Absent
    /\ processed_trades = {}
    /\ insertOrder = <<>>
    /\ loops = 0
    /\ running = 0
    /\ pollPc = "idle"
    /\ http = [poll |-> NoRequest, cmd |-> NoRequest]
    /\ trades = <<>>
    /\ idx = 0
    /\ pollMsg = NoMessage
    /\ cycleSent = <<>>
    /\ cycleQueried = {}
    /\ cacheAtStart = {}
    /\ outcome = "none"
    /\ prevFailed = FALSE
    /\ liveDeliveries = [i \in ids |-> 0]
    /\ cmdPc = "idle"
    /\ cmdKind = "none"
    /\ cmdMsg = ""
    /\ cmdOutcome = "none"
    /\ cmdResp = "none"
    /\ cmdOwed = 0
    /\ cmdSent = 0

Constructed == ConstructedOver(Ids)

\* inside client.run, every setting present
Init ==
    /\ phase = "running"
    /\ env = Settings
    /\ SECRET_KEY \in Secrets
    /\ probeIn = <<>>
    /\ probeOut = <<>>
    /\ Constructed

(***************************************************************************)
(* Dedup cache.                                                            *)
(***************************************************************************)
\* lines 131-132 without the truth test of trade_id
IsNewNoTruthy(trade, cache) == trade.orderId \notin cache

\* lines 131-132 without the membership test
IsNewNoDedup(trade, cache) == trade.orderId # 0

\* lines 131-132: trade_id and trade_id not in self.processed_trades
IsNew(trade, cache) == trade.orderId # 0 /\ trade.orderId \notin cache

\* line 130 walking the list from its end
RECURSIVE NextNewFromEnd(_, _, _)
NextNewFromEnd(ts, i, cache) ==
    IF i > Len(ts) THEN 0
    ELSE LET later == NextNewFromEnd(ts, i + 1, cache)
         IN  IF later # 0 THEN later
             ELSE IF IsNew(ts[i], cache) THEN i ELSE 0

\* position of the first event at or after i that passes line 132; 0 when none
RECURSIVE NextNew(_, _, _)
NextNew(ts, i, cache) ==
    IF i > Len(ts) THEN 0
    ELSE IF IsNew(ts[i], cache) THEN i
    ELSE NextNew(ts, i + 1, cache)

\* lines 137-139: set(list(self.processed_trades)[-1000:]); a set iterates in
\* an order unrelated to insertion, so any MAX_CACHE of its members may stay
Kept(cache) ==
    IF Cardinality(cache) > MAX_CACHE
    THEN {S \in SUBSET cache : Cardinality(S) = MAX_CACHE}
    ELSE {cache}

(***************************************************************************)
(* Poller (fetch_trades under tasks.loop) and on_ready.                    *)
(***************************************************************************)
\* Loop.start() of a task that is launched and not completed raises
StartRefusedNever == FALSE

StartRefused == loops > 0

on_ready ==
    /\ phase = "running"
    /\ loops' = IF StartRefused THEN loops ELSE loops + 1
    /\ UNCHANGED <<fixedVars, clientVars, http, pollVars, cmdVars>>

BeginCycle ==
    /\ prevFailed' = (outcome \in {"apifail", "exception"})
    /\ trades' = <<>>
    /\ idx' = 0
    /\ pollMsg' = NoMessage
    /\ cycleSent' = <<>>
    /\ cacheAtStart' = processed_trades

\* lines 120-125 with the request issued before the channel is looked at
fetch_trades_begin_eager ==
    /\ phase = "running"
    /\ running < loops
    /\ BeginCycle
    /\ \E channel \in BOOLEAN, t1, t2 \in Clock :
          /\ t1 <= t2
          /\ OpenSession
          /\ LET req == get_recent_trades(t1, t2)
             IN  /\ http' = [http EXCEPT !.poll = req]
                 /\ cycleQueried' = {req.endpoint}
          /\ IF ~channel
             THEN /\ outcome' = "nosink"
                  /\ UNCHANGED <<pollPc, running>>
             ELSE /\ pollPc' = "http"
                  /\ running' = running + 1
                  /\ outcome' = "running"
    /\ UNCHANGED <<fixedVars, loops, processed_trades, insertOrder,
                   liveDeliveries, cmdVars>>

\* lines 119-125 and 62-77: a tick of the loop, up to the await on session.get
fetch_trades_begin ==
    /\ phase = "running"
    /\ running < loops
    /\ BeginCycle
    /\ \E channel \in BOOLEAN :
          IF ~channel
          THEN /\ outcome' = "nosink"
               /\ cycleQueried' = {}
               /\ UNCHANGED <<clientVars, http, pollPc, running>>
          ELSE /\ OpenSession
               /\ \E t1, t2 \in Clock :
                     /\ t1 <= t2
                     /\ LET req == get_recent_trades(t1, t2)
                        IN  /\ http' = [http EXCEPT !.poll = req]
                            /\ cycleQueried' = {req.endpoint}
               /\ pollPc' = "http"
               /\ running' = running + 1
               /\ outcome' = "running"
    /\ UNCHANGED <<fixedVars, loops, processed_trades, insertOrder,
                   liveDeliveries, cmdVars>>

\* an exception that leaves the coroutine ends the Loop task
Propagate ==
    /\ outcome' = "exception"
    /\ pollPc' = "idle"
    /\ running' = running - 1
    /\ loops' = loops - 1

\* lines 141-142: except Exception
CatchException ==
    /\ outcome' = "exception"
    /\ pollPc' = "idle"
    /\ running' = running - 1
    /\ loops' = loops

\* lines 136-139 and the return of the coroutine; live is the delivery count
\* of the identities before the cut
FinishCycle(live) ==
    /\ \E S \in Kept(processed_trades) :
          /\ processed_trades' = S
          /\ insertOrder' = SelectSeq(insertOrder, LAMBDA i : i \in S)
          /\ liveDeliveries' = [i \in DOMAIN live |-> IF i \in S THEN live[i] ELSE 0]
    /\ outcome' = "done"
    /\ pollPc' = "idle"
    /\ running' = running - 1
    /\ idx' = 0
    /\ pollMsg' = NoMessage
    /\ loops' = loops

\* lines 130-134: the for loop from position i up to the next await, or to its end
Scan(ts, i, live) ==
    LET j == NextNew(ts, i, processed_trades)
    IN  IF j = 0
        THEN FinishCycle(live)
        ELSE /\ processed_trades' = processed_trades \cup {ts[j].orderId}
             /\ insertOrder' = Append(insertOrder, ts[j].orderId)
             /\ liveDeliveries' = live
             /\ idx' = j
             /\ \E t \in Clock : pollMsg' = format_trade_message(ts[j], t)
             /\ pollPc' = "send"
             /\ UNCHANGED <<outcome, running, loops>>

\* lines 78-90 and 126-134: the GET completes with one of responses
fetch_trades_response_from(responses) ==
    /\ phase = "running"
    /\ pollPc = "http"
    /\ http' = [http EXCEPT !.poll = NoRequest]
    /\ \E r \in responses :
          CASE r.kind \in {"transport", "http", "malformed", "nodata"} ->
                  /\ outcome' = "apifail"
                  /\ pollPc' = "idle"
                  /\ running' = running - 1
                  /\ UNCHANGED <<trades, idx, pollMsg, processed_trades, insertOrder,
                                 liveDeliveries, loops>>
            [] r.kind = "baddata" ->
                  /\ CatchException
                  /\ UNCHANGED <<trades, idx, pollMsg, processed_trades, insertOrder,
                                 liveDeliveries>>
            [] r.kind = "ok" ->
                  /\ trades' = r.orderList
                  /\ Scan(r.orderList, 1, liveDeliveries)
    /\ UNCHANGED <<fixedVars, clientVars, cycleSent, cycleQueried, cacheAtStart,
                   prevFailed, cmdVars>>

fetch_trades_response == fetch_trades_response_from(PollResponses)

\* line 134 raises, with the identity added on line 133 taken back
AfterSendRaisedForgets ==
    /\ CatchException
    /\ processed_trades' = processed_trades \ {trades[idx].orderId}
    /\ insertOrder' = SelectSeq(insertOrder, LAMBDA i : i # trades[idx].orderId)
    /\ UNCHANGED <<cycleSent, liveDeliveries, idx, pollMsg>>

\* line 134 raises: lines 141-142 end the cycle where it stands, line 133
\* already done for this event and lines 130-139 skipped for the rest
AfterSendRaised ==
    /\ CatchException
    /\ UNCHANGED <<cycleSent, processed_trades, insertOrder, liveDeliveries,
                   idx, pollMsg>>

\* line 134 returns or raises, then lines 130-139 go on
fetch_trades_sent ==
    /\ phase = "running"
    /\ pollPc = "send"
    /\ \E ok \in BOOLEAN :
          IF ok
          THEN /\ cycleSent' = Append(cycleSent, [idx |-> idx, text |-> pollMsg])
               /\ LET id == trades[idx].orderId
                  IN  Scan(trades, idx + 1,
                           [liveDeliveries EXCEPT ![id] = liveDeliveries[id] + 1])
          ELSE AfterSendRaised
    /\ UNCHANGED <<fixedVars, clientVars, http, trades, cycleQueried, cacheAtStart,
                   prevFailed, cmdVars>>

(***************************************************************************)
(* Chat commands (on_message).                                             *)
(***************************************************************************)
Authors == {"bot", "user"}
Contents == {"!ping", "!positions", "!tpsl", "hello"}

\* lines 149-161 and 178-180, up to the first await
on_message_begin ==
    /\ phase = "running"
    /\ cmdPc = "idle"
    /\ \E author \in Authors, content \in Contents :
          IF author = "bot" \/ content = "hello"
          THEN UNCHANGED <<cmdVars, clientVars, http>>
          ELSE /\ cmdKind' = content
               /\ cmdOutcome' = "running"
               /\ cmdResp' = "none"
               /\ cmdOwed' = 0
               /\ cmdSent' = 0
               /\ IF content = "!ping"
                  THEN /\ cmdMsg' = "Pong!"
                       /\ cmdPc' = "send"
                       /\ UNCHANGED <<clientVars, http>>
                  ELSE /\ OpenSession
                       /\ \E t \in Clock :
                             http' = [http EXCEPT !.cmd =
                                         IF content = "!positions"
                                         THEN get_positions(t) ELSE get_tp_sl_orders(t)]
                       /\ cmdPc' = "http"
                       /\ cmdMsg' = ""
    /\ UNCHANGED <<fixedVars, loops, pollVars>>

\* format_trade_message(pos, "position") and format_trade_message(order,
\* "tp_sl"): two arguments for a method that takes one, a TypeError
Formattable(data) ==
    IF cmdKind = "!positions"
    THEN \A i \in 1..Len(data) : data[i].positionAmt = 0
    ELSE FALSE

\* abs(float(pos.get('positionAmt', '0'))) > 0, line 170
NonZero(data) == {i \in 1..Len(data) : data[i].positionAmt # 0}

\* make_request returned None, or a dict without "data": the tests of lines
\* 164 and 183 fail
ApiFailed(r) == r.kind \in {"transport", "http", "malformed", "nodata"}

ErrorText(cmd) ==
    IF cmd = "!positions"
    THEN "Error al obtener posiciones o no hay datos"
    ELSE "Error al obtener ordenes TP/SL o no hay datos"

OnApiFailureSilent ==
    /\ cmdOutcome' = "done"
    /\ cmdPc' = "idle"
    /\ UNCHANGED cmdMsg

\* the else branches, lines 174-176 and 192-194
OnApiFailure ==
    /\ cmdMsg' = ErrorText(cmdKind)
    /\ cmdPc' = "send"
    /\ UNCHANGED cmdOutcome

\* lines 162-176 and 181-194: the GET of the command completes
on_message_response ==
    /\ phase = "running"
    /\ cmdPc = "http"
    /\ http' = [http EXCEPT !.cmd = NoRequest]
    /\ \E r \in CmdResponses :
          /\ cmdResp' = IF ApiFailed(r) THEN "failed"
                         ELSE IF r.data = <<>> THEN "empty" ELSE "ok"
          /\ cmdOwed' = IF cmdKind = "!positions" THEN Cardinality(NonZero(r.data)) ELSE 0
          /\ IF ApiFailed(r)
             THEN OnApiFailure
             ELSE IF r.data = <<>>
                  THEN /\ cmdMsg' = IF cmdKind = "!positions"
                                    THEN "No hay posiciones abiertas"
                                    ELSE "No hay ordenes TP/SL activas"
                       /\ cmdPc' = "send"
                       /\ UNCHANGED cmdOutcome
                  ELSE /\ cmdOutcome' = IF Formattable(r.data) THEN "done" ELSE "TypeError"
                       /\ cmdPc' = "idle"
                       /\ UNCHANGED cmdMsg
    /\ UNCHANGED <<fixedVars, clientVars, loops, pollVars, cmdKind, cmdSent>>

\* message.channel.send returns or raises, and the handler ends
on_message_sent ==
    /\ phase = "running"
    /\ cmdPc = "send"
    /\ \E ok \in BOOLEAN :
          /\ cmdOutcome' = IF ok THEN "sent" ELSE "exception"
          /\ cmdSent' = IF ok THEN cmdSent + 1 ELSE cmdSent
    /\ cmdPc' = "idle"
    /\ UNCHANGED <<fixedVars, clientVars, loops, http, pollVars, cmdKind, cmdMsg,
                   cmdResp, cmdOwed>>

Next ==
    \/ on_ready
    \/ fetch_trades_begin
    \/ fetch_trades_response
    \/ fetch_trades_sent
    \/ on_message_begin
    \/ on_message_response
    \/ on_message_sent

Spec == Init /\ [][Next]_vars

(***************************************************************************)
(* The process: __main__, __init__, run.                                   *)
(***************************************************************************)
\* the process as __main__ starts it, before BingXBot() is called
MainInit ==
    /\ phase = "boot"
    /\ env \in SUBSET Settings
    /\ SECRET_KEY \in IF "BINGX_SECRET_KEY" \in env THEN Secrets ELSE {"None"}
    /\ probeIn = <<>>
    /\ probeOut = <<>>
    /\ Constructed

\* lines 222-227: an exception of the try block is caught and printed, and
\* the script runs to its end either way
MainExitStatus(raised) == IF raised THEN 0 ELSE 0

\* the objects of the process go with it
Gone ==
    /\ loops' = 0
    /\ running' = 0
    /\ http' = [poll |-> NoRequest, cmd |-> NoRequest]
    /\ processed_trades' = {}
    /\ insertOrder' = <<>>
    /\ pollPc' = "idle"
    /\ trades' = <<>>
    /\ idx' = 0
    /\ pollMsg' = NoMessage
    /\ cycleSent' = <<>>
    /\ cycleQueried' = {}
    /\ cacheAtStart' = {}
    /\ outcome' = "none"
    /\ prevFailed' = FALSE
    /\ liveDeliveries' = [i \in DOMAIN liveDeliveries |-> 0]
    /\ cmdPc' = "idle"
    /\ cmdKind' = "none"
    /\ cmdMsg' = ""
    /\ cmdOutcome' = "none"
    /\ cmdResp' = "none"
    /\ cmdOwed' = 0
    /\ cmdSent' = 0

\* lines 18-31 and 224-227: BingXBot() returns, or raises ValueError
construct ==
    /\ phase = "boot"
    /\ IF env = Settings
       THEN /\ phase' = "running"
            /\ UNCHANGED <<exitCause, exitStatus>>
       ELSE /\ phase' = "exited"
            /\ exitCause' = "config"
            /\ exitStatus' = MainExitStatus(TRUE)
    /\ UNCHANGED <<env, probeIn, probeOut, SECRET_KEY, clientVars, loops, http,
                   pollVars, cmdVars>>

\* lines 203-208 with cleanup after client.run instead of in a finally
SessionAfterRunNoFinally(raised) ==
    IF session = "open" /\ ~raised THEN "closed" ELSE session

\* lines 196-208: the finally of run, whether client.run returned or raised
SessionAfterRun(raised) ==
    IF session = "open" THEN "closed" ELSE session

\* lines 201-208 and 225-227: client.run returns (shutdown) or raises
run_ends ==
    /\ phase = "running"
    /\ \E raised \in BOOLEAN :
          /\ session' = SessionAfterRun(raised)
          /\ exitCause' = IF raised THEN "error" ELSE "shutdown"
          /\ exitStatus' = MainExitStatus(raised)
    /\ phase' = "exited"
    /\ Gone
    /\ UNCHANGED <<env, probeIn, probeOut, SECRET_KEY, sessionsCreated>>

LifeNext ==
    \/ construct
    \/ run_ends
    \/ Next

LifeSpec == MainInit /\ [][LifeNext]_vars

(***************************************************************************)
(* The poller on its own, over enough identities to fill the cache and     *)
(* more than one batch beyond it.                                          *)
(***************************************************************************)
CacheIds == 1..(MAX_CACHE + MaxBatch + 1)

CacheResponses ==
    {[kind |-> "transport", orderList |-> <<>>]}
    \cup {[kind |-> "ok", orderList |-> l] :
             l \in SeqsUpTo([orderId : CacheIds, time : {T0}], MaxBatch)}

CacheInit ==
    /\ phase = "running"
    /\ env = Settings
    /\ SECRET_KEY = "secret"
    /\ probeIn = <<>>
    /\ probeOut = <<>>
    /\ ConstructedOver(CacheIds)

CacheNext ==
    \/ on_ready
    \/ fetch_trades_begin
    \/ fetch_trades_response_from(CacheResponses)
    \/ fetch_trades_sent

CacheSpec == CacheInit /\ [][CacheNext]_vars

(***************************************************************************)
(* sign_request applied on its own to two mappings with the same items.    *)
(***************************************************************************)
SignKeys == {"limit", "symbol", "timestamp"}
SignValues == {"1", "2"}

\* the dicts of at most MaxParams items over SignKeys
Dicts ==
    {d \in SeqsUpTo(SignKeys \X SignValues, MaxParams) :
        \A i, j \in 1..Len(d) : i # j => d[i][1] # d[j][1]}

Items(d) == {d[i] : i \in 1..Len(d)}

SignInit ==
    /\ phase = "sign"
    /\ env = Settings
    /\ SECRET_KEY \in Secrets
    /\ \E a, b \in Dicts :
          /\ Items(a) = Items(b)
          /\ probeIn = [a |-> a, b |-> b]
    /\ probeOut = <<>>
    /\ Constructed

sign_probe ==
    /\ phase = "sign"
    /\ probeOut = <<>>
    /\ probeOut' = [a |-> sign_request(probeIn.a), b |-> sign_request(probeIn.b)]
    /\ UNCHANGED <<phase, env, exitCause, exitStatus, probeIn, SECRET_KEY,
                   clientVars, loops, http, pollVars, cmdVars>>

SignSpec == SignInit /\ [][sign_probe]_vars

(***************************************************************************)
(* format_trade_message applied on its own.                                *)
(***************************************************************************)
\* instants in milliseconds, half a second apart
FormatClock == {T0 + 500 * k : k \in 0..MaxTick}

FormatInit ==
    /\ phase = "format"
    /\ env = Settings
    /\ SECRET_KEY \in Secrets
    /\ \E trade \in [orderId : 0..MaxId, time : {Absent} \cup FormatClock],
          t \in FormatClock :
          probeIn = [trade |-> trade, t |-> t]
    /\ probeOut = <<>>
    /\ Constructed

format_probe ==
    /\ phase = "format"
    /\ probeOut = <<>>
    /\ probeOut' = format_trade_message(probeIn.trade, probeIn.t)
    /\ UNCHANGED <<phase, env, exitCause, exitStatus, probeIn, SECRET_KEY,
                   clientVars, loops, http, pollVars, cmdVars>>

FormatSpec == FormatInit /\ [][format_probe]_vars

(***************************************************************************)
(* Properties.                                                             *)
(***************************************************************************)
Range(f) == {f[i] : i \in DOMAIN f}

\* C1: an identity is delivered at most once while it stays in
\* processed_trades: no identity has more than one message delivered since
\* it entered the cache, every delivered identity is a recorded one, and the
\* message being sent is that of an identity recorded and not yet delivered.
C1_AtMostOnceWhileCached ==
    /\ \A i \in Ids :
          /\ liveDeliveries[i] <= 1
          /\ liveDeliveries[i] = 1 => i \in processed_trades
    /\ pollPc = "send" =>
          /\ trades[idx].orderId \in processed_trades
          /\ liveDeliveries[trades[idx].orderId] = 0

\* the same one-event response fed to a later cycle: nothing is sent again
C1_SecondCycleSendsNothing ==
    /\ outcome = "done"
    /\ Len(trades) = 1
    /\ trades[1].orderId \in processed_trades
    /\ liveDeliveries[trades[1].orderId] = 1
    /\ cycleSent = <<>>

\* C2: between poll cycles, however they ended, processed_trades holds at
\* most MAX_CACHE identities.
C2_CacheBoundedBetweenCycles ==
    running = 0 => Cardinality(processed_trades) <= MAX_CACHE

LastN(q, n) == IF Len(q) <= n THEN q ELSE SubSeq(q, Len(q) - n + 1, Len(q))

\* C3: a step that cuts the cache back to MAX_CACHE keeps exactly the
\* MAX_CACHE identities inserted last.
C3_EvictionIsFifo ==
    [][(Cardinality(processed_trades) > MAX_CACHE
          /\ Cardinality(processed_trades') <= MAX_CACHE)
        => processed_trades' = Range(LastN(insertOrder, MAX_CACHE))]_vars

InFlight == {w \in {"poll", "cmd"} : http[w] # NoRequest}

\* C4: no GET is in flight whose sign parameter is the empty signature.
C4_NoRequestWithEmptySignature ==
    \A w \in InFlight : Get(http[w].params, "sign") # EmptySignature

\* C5: the signature of every request in flight is the HMAC, under the
\* secret, of the key=value items of exactly the request's parameters other
\* than sign, the timestamp among them, in ascending order of key; no item
\* of the signed string is a sign parameter.
C5_SignatureOverOtherParams ==
    \A w \in InFlight :
        LET p == http[w].params
            others == Range(Keys(p)) \ {"sign"}
            sig == Get(p, "sign")
        IN  /\ "timestamp" \in others
            /\ Encodable(SECRET_KEY) =>
                  /\ sig.key = SECRET_KEY
                  /\ Range(sig.msg) = {<<k, Get(p, k)>> : k \in others}
                  /\ Len(sig.msg) = Cardinality(others)
                  /\ \A i, j \in 1..Len(sig.msg) :
                        i < j => KeyRank(sig.msg[i][1]) < KeyRank(sig.msg[j][1])

\* a request of the poller and one of a command handler in flight together,
\* both signed, with timestamps assigned at different instants
C5_TwoSignedRequestsInFlight ==
    /\ InFlight = {"poll", "cmd"}
    /\ Encodable(SECRET_KEY)
    /\ Get(http["poll"].params, "timestamp") # Get(http["cmd"].params, "timestamp")

C8_FailureLeavesLoopRunning ==
    outcome \in {"apifail", "exception"} =>
        /\ loops = 1
        /\ running = 0
        /\ pollPc = "idle"
        /\ ENABLED fetch_trades_begin

\* the cycle after a failed one delivered an event
C8_DeliveredAfterFailure ==
    /\ prevFailed
    /\ outcome = "done"
    /\ cycleSent # <<>>

\* C9: the step that ends a cycle for want of a channel issues no request,
\* opens no session, sends nothing and leaves processed_trades as it was.
C9_NoSinkNoWork ==
    [][(outcome' = "nosink" /\ outcome # "nosink")
        => /\ http' = http
           /\ session' = session
           /\ processed_trades' = processed_trades
           /\ insertOrder' = insertOrder
           /\ cycleSent' = <<>>
           /\ cycleQueried' = {}
           /\ running' = running
           /\ pollPc' = "idle"]_vars

\* a cycle was skipped for want of a channel, the cache holding identities
C9_CycleSkipped ==
    /\ outcome = "nosink"
    /\ processed_trades # {}
    /\ session = "open"

\* positions up to n of the events of ts that are new to a cache that held
\* start when the cycle began: a truthy identity, not in start, not earlier in ts
NewIdx(ts, start, n) ==
    {j \in 1..n :
        /\ ts[j].orderId # 0
        /\ ts[j].orderId \notin start
        /\ \A i \in 1..(j - 1) : ts[i].orderId # ts[j].orderId}

\* C10: the messages a cycle has sent are one for each new event it has
\* passed, each the rendering of its event, in the order of the response;
\* so while a send is awaited, after the cycle has ended, and after it was
\* cut short by an exception (idx is then the event whose send raised).
C10_OneMessagePerNewEventInOrder ==
    (pollPc = "send" \/ outcome \in {"done", "exception"}) =>
        LET n == IF idx > 0 THEN idx - 1 ELSE Len(trades)
        IN  /\ {cycleSent[k].idx : k \in 1..Len(cycleSent)} = NewIdx(trades, cacheAtStart, n)
            /\ \A k, l \in 1..Len(cycleSent) :
                  k < l => cycleSent[k].idx < cycleSent[l].idx
            /\ \A k \in 1..Len(cycleSent) :
                  cycleSent[k].text.time = trades[cycleSent[k].idx].time \div 1000
            /\ pollPc = "send" => idx \in NewIdx(trades, cacheAtStart, idx)

\* a cycle ended after two messages
C10_TwoMessagesInOneCycle ==
    /\ outcome = "done"
    /\ Len(cycleSent) = 2

\* C11: a process that ended because a required setting was absent ended
\* with a non-zero exit status, and no process ended for another error.
C11_ConfigErrorExitsNonZero ==
    phase = "exited" =>
        /\ exitCause = "config" => exitStatus # 0
        /\ exitCause # "error"

\* C13: aiohttp.ClientSession() is called at most once in the life of the
\* process: there is a session exactly when it has been called once, and
\* every request in flight was issued with that session open.
C13_OneSessionEver ==
    /\ sessionsCreated <= 1
    /\ session = "None" <=> sessionsCreated = 0
    /\ InFlight # {} => session = "open"

\* two requests started before either completed, on one session
C13_TwoRequestsOneSession ==
    /\ InFlight = {"poll", "cmd"}
    /\ sessionsCreated = 1

\* C14: a process that has ended holds no open session, however run ended.
C14_NoOpenSessionAfterExit ==
    phase = "exited" => session # "open"

\* client.run raised with a session open, and the session was closed
C14_ClosedOnErrorPath ==
    /\ phase = "exited"
    /\ exitCause = "error"
    /\ session = "closed"

\* C12: when the API call of !positions or !tpsl failed (transport, status,
\* body, or no data key), the handler hands the failure text of its command to
\* message.channel.send: it is at that send, or it ended there.
C12_FailureIsAnswered ==
    cmdResp = "failed" =>
        /\ cmdKind \in {"!positions", "!tpsl"}
        /\ cmdMsg = ErrorText(cmdKind)
        /\ \/ cmdPc = "send"
           \/ cmdPc = "idle" /\ cmdOutcome \in {"sent", "exception"}

C12_FailureTextDelivered ==
    /\ cmdResp = "failed"
    /\ cmdKind = "!tpsl"
    /\ cmdOutcome = "sent"
    /\ cmdSent = 1

\* C20: a !positions handler that got a non-empty data list ends having sent
\* one message per position with a non-zero amount.
C20_OneMessagePerOpenPosition ==
    (cmdKind = "!positions" /\ cmdResp = "ok" /\ cmdPc = "idle") =>
        cmdSent = cmdOwed

\* C15: an event without a time field renders the wall clock of the call in
\* seconds, the value a time field equal to that clock would render.
C15_AbsentTimeRendersNow ==
    (phase = "format" /\ probeOut # <<>> /\ probeIn.trade.time = Absent) =>
        /\ probeOut.time = probeIn.t \div 1000
        /\ probeOut = format_trade_message([probeIn.trade EXCEPT !.time = probeIn.t],
                                           probeIn.t)

\* C16: two mappings with the same items sign the same string under the same
\* secret, whatever their insertion orders: the items of the mapping in
\* ascending order of key.
C16_SignatureIgnoresInsertionOrder ==
    (phase = "sign" /\ probeOut # <<>>) =>
        /\ probeOut.a = probeOut.b
        /\ Encodable(SECRET_KEY) =>
              LET msg == probeOut.a.msg
              IN  /\ probeOut.a.key = SECRET_KEY
                  /\ Len(msg) = Len(probeIn.a)
                  /\ Range(msg) = Items(probeIn.a)
                  /\ \A i, j \in 1..Len(msg) :
                        i < j => KeyRank(msg[i][1]) < KeyRank(msg[j][1])

C16_SignedInTwoOrders ==
    /\ phase = "sign"
    /\ probeOut # <<>>
    /\ Encodable(SECRET_KEY)
    /\ Len(probeIn.a) = MaxParams
    /\ Keys(probeIn.a) # Keys(probeIn.b)
    /\ Keys(probeIn.a) # sorted(Keys(probeIn.a))
    /\ Keys(probeIn.b) # sorted(Keys(probeIn.b))

C19_FalsyIdentitySkipped ==
    /\ 0 \notin processed_trades
    /\ pollPc = "send" => trades[idx].orderId # 0
    /\ \A k \in 1..Len(cycleSent) : trades[cycleSent[k].idx].orderId # 0
    /\ outcome = "done" =>
          \A j \in 1..Len(trades) :
              (trades[j].orderId # 0 /\ trades[j].orderId \notin cacheAtStart) =>
                  \E k \in 1..Len(cycleSent) :
                      trades[cycleSent[k].idx].orderId = trades[j].orderId

\* a cycle that skipped a first event without identity and delivered the second
C19_SkippedThenDelivered ==
    /\ outcome = "done"
    /\ Len(trades) = 2
    /\ trades[1].orderId = 0
    /\ Len(cycleSent) = 1
    /\ cycleSent[1].idx = 2

\* C18: processed_trades never holds more than MAX_CACHE identities plus
\* those of one response.
C18_OvershootWithinOneBatch ==
    Cardinality(processed_trades) <= MAX_CACHE + MaxBatch

=============================================================================
